---- MODULE Spec2Model ----
(***************************************************************************)
(* Model of lib/webrtc-manager.js: the WebrtcManager class, which keeps    *)
(* one peer object per remote peer and runs the "perfect negotiation"      *)
(* handlers on it.                                                         *)
(*                                                                         *)
(* JavaScript runs one handler at a time; a handler runs until its next    *)
(* await, so every action below is one such run: from an event (a relay    *)
(* message, an engine event, a call of the host application) or from the   *)
(* completion of an awaited engine call up to the next await or the end    *)
(* of the handler.  A suspended async handler is a record in tasks.        *)
(*                                                                         *)
(* Two specifications share the actions:                                   *)
(*   Spec      one manager, "A", whose remote peers "B" and "C", relay and *)
(*             transport engine are the environment: any message may       *)
(*             arrive, any engine call may fail;                           *)
(*   SpecPair  two managers, "A" (impolite towards B) and "B" (polite      *)
(*             towards A), joined by a relay that delivers in order, over  *)
(*             an engine whose calls fail only when the signaling state    *)
(*             forbids them.                                               *)
(***************************************************************************)
EXTENDS Integers, Sequences, FiniteSets, TLC

\* ------------------------------------------------------------------ bounds
\* events (messages, engine events, host calls) in one behaviour
MaxEvents == 4
\* peer objects created in one behaviour
MaxSess == 2
\* negotiation-needed events in one behaviour of SpecPair
MaxNeg == 2

VARIABLES
    peers,      \* this.peers of each manager: peerId -> peer object (0: no such key)
    sess,       \* the peer objects ever created, by identity (index)
    tasks,      \* the suspended async handlers
    net,        \* the relay: messages in flight to each manager
    step,       \* what the last handler run was and did
    clock,      \* events so far
    enableDataChannel   \* options.enableDataChannel

vars == <<peers, sess, tasks, net, step, clock, enableDataChannel>>

Node == {"A", "B"}
Id == {"A", "B", "C"}
NoPeer == 0

SdpType == {"offer", "answer", "pranswer"}

\* ------------------------------------------------------------------ engine
\* The signaling state machine of an RTCPeerConnection, as far as the
\* manager drives it.  c is a peer object; its connection's fields are
\* sig, pendingLocal, currentLocal, pendingRemote, currentRemote, closed.

\* the description of the last completed negotiation only
LocalDescriptionCurrent(c) == c.currentLocal

\* peerConnection.localDescription
LocalDescription(c) ==
    IF c.pendingLocal # "none" THEN c.pendingLocal ELSE c.currentLocal

\* peerConnection.remoteDescription
RemoteDescription(c) ==
    IF c.pendingRemote # "none" THEN c.pendingRemote ELSE c.currentRemote

\* may the pending call op (with description type typ) succeed on c
OpValid(op, typ, c) ==
    CASE op = "createOffer" -> TRUE
      [] op = "setLocalOffer" -> c.sig \in {"stable", "have-local-offer"}
      [] op = "rollback" -> c.sig \in {"have-local-offer", "have-remote-offer"}
      [] op = "setRemote" ->
            IF typ = "offer"
            THEN c.sig \in {"stable", "have-remote-offer"}
            ELSE c.sig \in {"have-local-offer", "have-remote-pranswer"}
      [] op = "createAnswer" -> c.sig \in {"have-remote-offer", "have-local-pranswer"}
      [] op = "setLocalAnswer" -> c.sig \in {"have-remote-offer", "have-local-pranswer"}
      [] op = "addIceCandidate" -> RemoteDescription(c) # "none"
      [] OTHER -> FALSE

\* the connection after the call succeeded
OpEffect(op, typ, c) ==
    CASE op = "setLocalOffer" ->
            [c EXCEPT !.sig = "have-local-offer", !.pendingLocal = "offer"]
      [] op = "rollback" ->
            [c EXCEPT !.sig = "stable", !.pendingLocal = "none", !.pendingRemote = "none"]
      [] op = "setRemote" /\ typ = "offer" ->
            [c EXCEPT !.sig = "have-remote-offer", !.pendingRemote = "offer"]
      [] op = "setRemote" /\ typ = "pranswer" ->
            [c EXCEPT !.sig = "have-remote-pranswer", !.pendingRemote = "pranswer"]
      [] op = "setRemote" /\ typ = "answer" ->
            [c EXCEPT !.sig = "stable", !.currentLocal = c.pendingLocal,
                      !.currentRemote = "answer",
                      !.pendingLocal = "none", !.pendingRemote = "none"]
      [] op = "setLocalAnswer" ->
            [c EXCEPT !.sig = "stable", !.currentLocal = "answer",
                      !.currentRemote = c.pendingRemote,
                      !.pendingLocal = "none", !.pendingRemote = "none"]
      [] OTHER -> c

\* rtcPeerConnection.close() and dataChannel.close()
CloseConnection(c) ==
    [c EXCEPT !.closed = TRUE, !.sig = "closed", !.dcClosed = c.hasDC]

\* ------------------------------------------------------------------ manager
\* the object addPeer stores in this.peers[peerId], with its connection
NewPeer(n, peerId, polite, dataChannel) ==
    [owner |-> n, peerId |-> peerId, polite |-> polite,
     makingOffer |-> FALSE, ignoreOffer |-> FALSE,
     hasDC |-> dataChannel, dcClosed |-> FALSE, closed |-> FALSE,
     sig |-> "stable",
     pendingLocal |-> "none", currentLocal |-> "none",
     pendingRemote |-> "none", currentRemote |-> "none"]

\* what one handler run is and does: the handler a, the manager n, the peer
\* object s it works on, the sender from and description type typ of a
\* message, the awaited call op that completed and how, the engine calls
\* invoked and the messages sent during the run, and whether an error left
\* the handler (thrown, or as the rejection of the promise it returned)
Did(a, n, s, from, typ, op, ok, calls, sent, raised) ==
    [a |-> a, n |-> n, s |-> s, from |-> from, typ |-> typ, op |-> op, ok |-> ok,
     calls |-> calls, sent |-> sent, raised |-> raised]

\* a relay message {from, payload: {action, connections, bePolite, sdp, ice}}
Msg(from, action, connections, bePolite, sdp, ice) ==
    [from |-> from, action |-> action, connections |-> connections,
     bePolite |-> bePolite, sdp |-> sdp, ice |-> ice]

SdpMsg(from, typ) == Msg(from, "sdp", <<>>, FALSE, typ, "none")

\* the state a synchronous part of a handler works on
Heap == [peers |-> peers, sess |-> sess, calls |-> <<>>]

\* addPeer without the test for an existing peer
AddPeerOverwrite(h, n, peerId, polite) ==
    [peers |-> [h.peers EXCEPT ![n][peerId] = Len(h.sess) + 1],
     sess |-> Append(h.sess, NewPeer(n, peerId, polite, enableDataChannel)),
     calls |-> h.calls \o <<"RTCPeerConnection">>
                 \o (IF enableDataChannel THEN <<"createDataChannel">> ELSE <<>>)]

\* addPeer(peerId, peerType, polite) of manager n
AddPeer(h, n, peerId, polite) ==
    IF h.peers[n][peerId] # NoPeer
    THEN h
    ELSE [peers |-> [h.peers EXCEPT ![n][peerId] = Len(h.sess) + 1],
          sess |-> Append(h.sess, NewPeer(n, peerId, polite, enableDataChannel)),
          calls |-> h.calls \o <<"RTCPeerConnection">>
                      \o (IF enableDataChannel THEN <<"createDataChannel">> ELSE <<>>)]

\* connections.forEach((newPeer) => this.addPeer(newPeer.peerId, newPeer.peerType, bePolite))
RECURSIVE AddPeers(_, _, _, _)
AddPeers(h, n, connections, polite) ==
    IF connections = <<>>
    THEN h
    ELSE AddPeers(AddPeer(h, n, Head(connections), polite), n, Tail(connections), polite)

\* removePeer that empties this.peers
RemovePeerClearsMap(h, n, peer) ==
    IF peer = NoPeer
    THEN h
    ELSE [peers |-> [h.peers EXCEPT ![n] = [q \in Id |-> NoPeer]],
          sess |-> [h.sess EXCEPT ![peer] = CloseConnection(@)],
          calls |-> h.calls
                      \o (IF h.sess[peer].hasDC THEN <<"dataChannel.close">> ELSE <<>>)
                      \o <<"close">>]

\* removePeer(peer) of manager n; peer is a peer object or undefined (NoPeer)
RemovePeer(h, n, peer) ==
    IF peer = NoPeer
    THEN h
    ELSE [peers |-> [h.peers EXCEPT ![n][h.sess[peer].peerId] = NoPeer],
          sess |-> [h.sess EXCEPT ![peer] = CloseConnection(@)],
          calls |-> h.calls
                      \o (IF h.sess[peer].hasDC THEN <<"dataChannel.close">> ELSE <<>>)
                      \o <<"close">>]

\* peer.remove(): () => this.removePeer(this.peers[peerId])
Remove(h, n, peerId) == RemovePeer(h, n, h.peers[n][peerId])

\* a loop that ends after the first key it removes
RemoveAllFirstOnly(h, n, ids) ==
    LET present == SelectSeq(ids, LAMBDA p : h.peers[n][p] # NoPeer)
    IN  IF present = <<>> THEN h ELSE Remove(h, n, Head(present))

\* for (const peerId in this.peers) this.peers[peerId].remove(), over the
\* keys in ids
RECURSIVE RemoveAll(_, _, _)
RemoveAll(h, n, ids) ==
    IF ids = <<>>
    THEN h
    ELSE RemoveAll(IF h.peers[n][Head(ids)] = NoPeer THEN h ELSE Remove(h, n, Head(ids)),
                   n, Tail(ids))

\* the roles the other way round: the polite peer is the one that offers
IsOffererPolite(c) == c.polite

\* a handler that offers whatever the role
IsOffererAlways(c) == TRUE

\* only the impolite peer gives an offer
IsOfferer(c) == ~c.polite

\* offerCollision
OfferCollision(typ, c) ==
    typ = "offer" /\ (c.makingOffer \/ c.sig # "stable")

\* the roles swapped: the polite peer ignores
IgnoreOfferPolite(c, offerCollision) == c.polite /\ offerCollision

\* peer.ignoreOffer
IgnoreOffer(c, offerCollision) == ~c.polite /\ offerCollision

\* the offer set as remote description at once, collision or not
FirstSdpOpNoRollback(offerCollision) == "setRemote"

\* the first engine call of updateSessionDescription
FirstSdpOp(offerCollision) ==
    IF offerCollision THEN "rollback" ELSE "setRemote"

\* the engine call a handler invokes after the awaited call op succeeded
\* ("none": it invokes no further call)
NextOp(op, typ) ==
    CASE op = "createOffer" -> "setLocalOffer"
      [] op = "rollback" -> "setRemote"
      [] op = "setRemote" /\ typ = "offer" -> "createAnswer"
      [] op = "createAnswer" -> "setLocalAnswer"
      [] OTHER -> "none"

\* the offer set as local description but not sent
SendsAfterAnswerOnly(op) == op = "setLocalAnswer"

\* does the handler send peerConnection.localDescription once op succeeded
SendsAfter(op) == op \in {"setLocalOffer", "setLocalAnswer"}

\* the suspended handler
Task(kind, s, pc, typ, offerCollision, rolledBack) ==
    [kind |-> kind, s |-> s, pc |-> pc, typ |-> typ,
     collision |-> offerCollision, rolledBack |-> rolledBack]

\* signalingChannel.sendTo(to, payload) by manager n
SendTo(pair, n, to, m) ==
    IF pair /\ to \in Node THEN [net EXCEPT ![to] = Append(@, m)] ELSE net

RemoveAt(q, i) == SubSeq(q, 1, i - 1) \o SubSeq(q, i + 1, Len(q))

\* ------------------------------------------------------------------ handlers
\* updateSessionDescription(peer, description), up to its first await.
\* With no peer the read of peer.rtcPeerConnection throws inside the try.
UpdateSessionDescription(n, from, peer, typ) ==
    IF peer = NoPeer
    THEN /\ step' = Did("sdp", n, NoPeer, from, typ, "none", TRUE, <<>>, <<>>, FALSE)
         /\ UNCHANGED <<peers, sess, tasks>>
    ELSE LET c == sess[peer]
             offerCollision == OfferCollision(typ, c)
             ignoreOffer == IgnoreOffer(c, offerCollision)
             op == FirstSdpOp(offerCollision)
         IN  /\ sess' = [sess EXCEPT ![peer].ignoreOffer = ignoreOffer]
             /\ tasks' = IF ignoreOffer \/ c.closed
                         THEN tasks
                         ELSE Append(tasks, Task("sdp", peer, op, typ, offerCollision, FALSE))
             /\ step' = Did("sdp", n, peer, from, typ, "none", TRUE,
                            IF ignoreOffer THEN <<>> ELSE <<op>>, <<>>, FALSE)
             /\ UNCHANGED peers

\* updateIceCandidate(peer, candidate), up to its first await.  With no peer
\* the read of peer.rtcPeerConnection throws outside the try: the promise the
\* async function returned is rejected and nobody handles it.
UpdateIceCandidate(n, from, peer, candidate) ==
    IF peer = NoPeer
    THEN /\ step' = Did("ice", n, NoPeer, from, candidate, "none", TRUE, <<>>, <<>>, TRUE)
         /\ UNCHANGED <<peers, sess, tasks>>
    ELSE /\ tasks' = IF candidate = "null" \/ sess[peer].closed
                     THEN tasks
                     ELSE Append(tasks, Task("ice", peer, "addIceCandidate", candidate,
                                             FALSE, FALSE))
         /\ step' = Did("ice", n, peer, from, candidate, "none", TRUE,
                        IF candidate = "null" THEN <<>> ELSE <<"addIceCandidate">>,
                        <<>>, FALSE)
         /\ UNCHANGED <<peers, sess>>

\* signalingMessageHandler(message) of manager n
SignalingMessageHandler(n, m) ==
    IF m.action = "open"
    THEN LET h == AddPeers(Heap, n, m.connections, m.bePolite)
         IN  /\ Len(h.sess) <= MaxSess
             /\ peers' = h.peers
             /\ sess' = h.sess
             /\ step' = Did("open", n, NoPeer, m.from,
                            IF m.bePolite THEN "polite" ELSE "impolite", "none", TRUE,
                            h.calls, <<>>, FALSE)
             /\ UNCHANGED tasks
    ELSE IF m.action = "close"
    THEN LET h == RemovePeer(Heap, n, peers[n][m.from])
         IN  /\ peers' = h.peers
             /\ sess' = h.sess
             /\ step' = Did("close", n, peers[n][m.from], m.from, "none", "none", TRUE,
                            h.calls, <<>>, FALSE)
             /\ UNCHANGED tasks
    ELSE IF m.action = "sdp"
    THEN UpdateSessionDescription(n, m.from, peers[n][m.from], m.sdp)
    ELSE IF m.action = "ice"
    THEN UpdateIceCandidate(n, m.from, peers[n][m.from], m.ice)
    ELSE /\ step' = Did("unknown", n, NoPeer, m.from, "none", "none", TRUE,
                        <<>>, <<>>, FALSE)
         /\ UNCHANGED <<peers, sess, tasks>>

\* the messages the relay may hand to manager n in Spec: "B" is the peer
\* that sends every kind of message, "C" a second peer that joins with it
EnvMessages(n) ==
    {Msg("server", "open", cs, pol, "none", "none") :
        cs \in {<<"B">>, <<"B", "C">>}, pol \in BOOLEAN}
    \cup {Msg(p, "close", <<>>, FALSE, "none", "none") : p \in {"B", "C"}}
    \cup {SdpMsg("B", t) : t \in SdpType}
    \cup {SdpMsg("C", "offer")}
    \cup {Msg("B", "ice", <<>>, FALSE, "none", i) : i \in {"null", "candidate"}}
    \cup {Msg("server", "ping", <<>>, FALSE, "none", "none")}

\* the relay calls onMessage with any message (Spec)
Receive(n) ==
    /\ clock < MaxEvents
    /\ \E m \in EnvMessages(n) : SignalingMessageHandler(n, m)
    /\ clock' = clock + 1
    /\ UNCHANGED <<net, enableDataChannel>>

\* the relay delivers the next message for manager n (SpecPair)
Deliver(n) ==
    /\ net[n] # <<>>
    /\ SignalingMessageHandler(n, Head(net[n]))
    /\ net' = [net EXCEPT ![n] = Tail(@)]
    /\ UNCHANGED <<clock, enableDataChannel>>

\* peerConnection.onnegotiationneeded of peer object s, up to its first
\* await (the polite peer runs through to the finally clause)
NegotiationNeeded(s, max) ==
    /\ clock < max
    /\ s \in 1..Len(sess)
    /\ ~sess[s].closed
    /\ LET c == sess[s]
       IN  IF IsOfferer(c)
           THEN /\ sess' = [sess EXCEPT ![s].makingOffer = TRUE]
                /\ tasks' = Append(tasks, Task("neg", s, "createOffer", "offer", FALSE, FALSE))
                /\ step' = Did("negotiationneeded", c.owner, s, "none", "none", "none", TRUE,
                               <<"createOffer">>, <<>>, FALSE)
           ELSE /\ sess' = [sess EXCEPT ![s].makingOffer = FALSE]
                /\ tasks' = tasks
                /\ step' = Did("negotiationneeded", c.owner, s, "none", "none", "none", TRUE,
                               <<>>, <<>>, FALSE)
    /\ clock' = clock + 1
    /\ UNCHANGED <<peers, net, enableDataChannel>>

\* a handler that tears the connection down when connectivity failed
AfterIceConnectionStateTeardown(c, state) ==
    IF state = "failed" THEN CloseConnection(c) ELSE c

\* the peer object after oniceconnectionstatechange: restartIce() leaves the
\* signaling state and the descriptions as they are
AfterIceConnectionState(c, state) == c

\* peerConnection.oniceconnectionstatechange of peer object s, the engine
\* reporting iceConnectionState state
IceConnectionStateChange(s, state) ==
    /\ clock < MaxEvents
    /\ s \in 1..Len(sess)
    /\ ~sess[s].closed
    /\ sess' = [sess EXCEPT ![s] = AfterIceConnectionState(@, state)]
    /\ step' = Did("iceconnectionstatechange", sess[s].owner, s, "none", state, "none", TRUE,
                   IF state = "failed" THEN <<"restartIce">> ELSE <<>>, <<>>, FALSE)
    /\ clock' = clock + 1
    /\ UNCHANGED <<peers, tasks, net, enableDataChannel>>

\* the host application calls remove() of a peer object it holds
RemoveHandle(s) ==
    /\ clock < MaxEvents
    /\ s \in 1..Len(sess)
    /\ LET n == sess[s].owner
           h == Remove(Heap, n, sess[s].peerId)
       IN  /\ peers' = h.peers
           /\ sess' = h.sess
           /\ step' = Did("remove", n, s, "none", "none", "none", TRUE, h.calls, <<>>, FALSE)
    /\ clock' = clock + 1
    /\ UNCHANGED <<tasks, net, enableDataChannel>>

\* the host application calls removePeer(peer) with a peer object it holds,
\* or with undefined
RemovePeerCall(n, s) ==
    /\ clock < MaxEvents
    /\ s \in 0..Len(sess)
    /\ s # NoPeer => sess[s].owner = n
    /\ LET h == RemovePeer(Heap, n, s)
       IN  /\ peers' = h.peers
           /\ sess' = h.sess
           /\ step' = Did("removePeer", n, s, "none", "none", "none", TRUE, h.calls, <<>>, FALSE)
    /\ clock' = clock + 1
    /\ UNCHANGED <<tasks, net, enableDataChannel>>

\* signalingDisconnectHandler() of manager n
SignalingDisconnectHandler(n) ==
    /\ clock < MaxEvents
    /\ LET h == RemoveAll(Heap, n, <<"A", "B", "C">>)
       IN  /\ peers' = h.peers
           /\ sess' = h.sess
           /\ step' = Did("disconnect", n, NoPeer, "none", "none", "none", TRUE,
                          h.calls, <<>>, FALSE)
    /\ clock' = clock + 1
    /\ UNCHANGED <<tasks, net, enableDataChannel>>

\* a handler without the finally clause
FinallyNothing(kind, c) == c

\* the peer object after the end of a handler of the given kind: the
\* finally clause of onnegotiationneeded clears makingOffer
Finally(kind, c) ==
    IF kind = "neg" THEN [c EXCEPT !.makingOffer = FALSE] ELSE c

\* The awaited engine call of suspended handler i completes, with success
\* (ok) or with an error, and the handler runs on to its next await or to
\* its end.  A call succeeds only in a signaling state that allows it; in
\* SpecPair (pair) it then always succeeds.  A call that was pending when
\* the connection was closed may still complete either way, leaving the
\* closed connection as it is; a call invoked on a closed connection is
\* rejected at once.
Complete(pair, i, ok) ==
    /\ i \in 1..Len(tasks)
    /\ LET t == tasks[i]
           c == sess[t.s]
           valid == c.closed \/ OpValid(t.pc, t.typ, c)
           c1 == IF ok /\ ~c.closed THEN OpEffect(t.pc, t.typ, c) ELSE c
           next == IF ok THEN NextOp(t.pc, t.typ) ELSE "none"
           goesOn == next # "none" /\ ~c.closed
           sent == IF ok /\ SendsAfter(t.pc)
                   THEN <<[to |-> c.peerId, m |-> SdpMsg(c.owner, LocalDescription(c1))]>>
                   ELSE <<>>
           c2 == IF goesOn THEN c1 ELSE Finally(t.kind, c1)
       IN  /\ ok => valid
           /\ (pair /\ valid) => ok
           /\ sess' = [sess EXCEPT ![t.s] = c2]
           /\ tasks' = IF goesOn
                       THEN [tasks EXCEPT ![i] = Task(t.kind, t.s, next, t.typ, t.collision,
                                                      t.rolledBack \/ t.pc = "rollback")]
                       ELSE RemoveAt(tasks, i)
           /\ net' = IF sent = <<>> THEN net ELSE SendTo(pair, c.owner, sent[1].to, sent[1].m)
           /\ step' = Did("complete", c.owner, t.s, "none", t.typ, t.pc, ok,
                          IF next = "none" THEN <<>> ELSE <<next>>, sent, FALSE)
    /\ UNCHANGED <<peers, clock, enableDataChannel>>

\* ------------------------------------------------------------------ specifications
NoStep == Did("init", "none", NoPeer, "none", "none", "none", TRUE, <<>>, <<>>, FALSE)

\* a manager just constructed
Init ==
    /\ peers = [n \in Node |-> [p \in Id |-> NoPeer]]
    /\ sess = <<>>
    /\ tasks = <<>>
    /\ net = [n \in Node |-> <<>>]
    /\ step = NoStep
    /\ clock = 0
    /\ enableDataChannel \in BOOLEAN

Next ==
    \/ Receive("A")
    \/ \E s \in 1..MaxSess : NegotiationNeeded(s, MaxEvents)
    \/ \E s \in 1..MaxSess : RemoveHandle(s)
    \/ \E s \in 0..MaxSess : RemovePeerCall("A", s)
    \/ SignalingDisconnectHandler("A")
    \/ \E s \in 1..MaxSess, state \in {"failed", "disconnected"} :
          IceConnectionStateChange(s, state)
    \/ \E i \in 1..MaxEvents, ok \in BOOLEAN : Complete(FALSE, i, ok)

Spec == Init /\ [][Next]_vars

\* A and B after the relay's open messages: A holds the impolite peer object
\* for B, B the polite one for A
InitPair ==
    /\ peers = [n \in Node |-> [p \in Id |->
                  IF n = "A" /\ p = "B" THEN 1 ELSE IF n = "B" /\ p = "A" THEN 2 ELSE NoPeer]]
    /\ enableDataChannel \in BOOLEAN
    /\ sess = <<NewPeer("A", "B", FALSE, enableDataChannel),
                NewPeer("B", "A", TRUE, enableDataChannel)>>
    /\ tasks = <<>>
    /\ net = [n \in Node |-> <<>>]
    /\ step = NoStep
    /\ clock = 0

NextPair ==
    \/ \E s \in 1..2 : NegotiationNeeded(s, MaxNeg)
    \/ \E n \in Node : Deliver(n)
    \/ \E i \in 1..(2 * MaxNeg + 2) : Complete(TRUE, i, TRUE)

SpecPair == InitPair /\ [][NextPair]_vars

\* The event loop runs every handler whose awaited call has completed, the
\* engine completes every call, and the relay delivers every message.
SpecPairFair ==
    /\ SpecPair
    /\ \A n \in Node : WF_vars(Deliver(n))
    /\ \A i \in 1..(2 * MaxNeg + 2) : WF_vars(Complete(TRUE, i, TRUE))

\* ------------------------------------------------------------------ claims
IsPeer(s) == s \in 1..Len(sess)

\* a handler suspended on peer object s, started by a message (kinds sdp, ice)
\* or by negotiation-needed (kind neg)
InFlight(s, kinds) == {i \in 1..Len(tasks) : tasks[i].s = s /\ tasks[i].kind \in kinds}

\* the peer objects of SpecPair: A's for B (impolite), B's for A (polite)
SessA == 1
SessB == 2

\* both connections stable, A's offer and B's answer applied on both sides
Converged ==
    /\ sess[SessA].sig = "stable" /\ sess[SessB].sig = "stable"
    /\ sess[SessA].currentLocal = "offer" /\ sess[SessA].currentRemote = "answer"
    /\ sess[SessB].currentRemote = "offer" /\ sess[SessB].currentLocal = "answer"

\* negotiation-needed fires at B while A is making its offer
Glare ==
    /\ step.a = "negotiationneeded" /\ step.s = SessB
    /\ sess[SessA].makingOffer

\* C1: between an impolite A and a polite B over an in-order relay and an
\* engine whose calls succeed, A never rolls back and never loses the local
\* offer it set other than by having it answered, B never holds a local
\* offer, and once negotiation-needed has fired at A (in particular at A and
\* B at once) both connections reach stable with A's offer and B's answer
\* applied, and stay so once the events have ended.
C1_ImpoliteOfferWins ==
    /\ [][/\ (step'.s = SessA => \A k \in 1..Len(step'.calls) : step'.calls[k] # "rollback")
          /\ (sess[SessA].pendingLocal = "offer" =>
                \/ sess'[SessA].pendingLocal = "offer"
                \/ sess'[SessA].currentLocal = "offer" /\ sess'[SessA].currentRemote = "answer")
          /\ ~sess'[SessA].ignoreOffer
          /\ LocalDescription(sess'[SessB]) # "offer"
          /\ ~sess'[SessB].makingOffer]_vars
    /\ (Glare ~> Converged)
    /\ ((step.a = "negotiationneeded" /\ step.s = SessA) ~> Converged)
    /\ (<>(step.a = "negotiationneeded" /\ step.s = SessA) => <>[]Converged)

C1_Witness == Glare

\* C2: an impolite peer object that receives an offer while makingOffer is
\* true or its signaling state is not stable sets ignoreOffer, invokes no
\* engine call, suspends no handler, sends nothing and leaves makingOffer
\* and the signaling state as they were.
C2_ImpoliteIgnoresCollidingOffer ==
    [][\A s \in 1..Len(sess) :
          (/\ step'.a = "sdp" /\ step'.s = s /\ step'.typ = "offer"
           /\ ~sess[s].polite
           /\ (sess[s].makingOffer \/ sess[s].sig # "stable"))
          => /\ sess'[s].ignoreOffer
             /\ step'.calls = <<>> /\ step'.sent = <<>> /\ ~step'.raised
             /\ tasks' = tasks /\ net' = net /\ peers' = peers
             /\ sess'[s].makingOffer = sess[s].makingOffer
             /\ sess'[s].sig = sess[s].sig]_vars

C2_Witness ==
    /\ step.a = "sdp" /\ step.typ = "offer" /\ step.s # NoPeer
    /\ ~sess[step.s].polite
    /\ sess[step.s].makingOffer
    /\ sess[step.s].ignoreOffer

C4_PoliteNeverOffers ==
    \A s \in 1..Len(sess) :
        sess[s].polite =>
            /\ ~sess[s].makingOffer
            /\ InFlight(s, {"neg"}) = {}
            /\ LocalDescription(sess[s]) # "offer"
            /\ step.s = s =>
                 /\ \A k \in 1..Len(step.calls) :
                       step.calls[k] \notin {"createOffer", "setLocalOffer"}
                 /\ \A k \in 1..Len(step.sent) : step.sent[k].m.sdp # "offer"

C4_Witness ==
    /\ step.a = "negotiationneeded" /\ step.s # NoPeer
    /\ sess[step.s].polite
    /\ sess[step.s].sig = "have-remote-offer"

\* C5: makingOffer of a peer object is true exactly while an offer creation
\* for it is in flight.
C5_MakingOfferIffOfferInFlight ==
    \A s \in 1..Len(sess) : sess[s].makingOffer <=> InFlight(s, {"neg"}) # {}

\* C6: at most one handler of an inbound sdp or ice message is in flight for
\* a peer object: no engine call of a later message is invoked before the
\* calls of an earlier one have completed.
C6_InboundAppliedOneAtATime ==
    \A s \in 1..Len(sess) : Cardinality(InFlight(s, {"sdp", "ice"})) <= 1

\* C7: a handler that resumes after its peer object was removed (connection
\* closed, key deleted) invokes no engine call, sends nothing and raises
\* nothing.
C7_CompletionAfterRemoveDiscarded ==
    [][\A s \in 1..Len(sess) :
          (/\ step'.a = "complete" /\ step'.s = s
           /\ sess[s].closed
           /\ peers[sess[s].owner][sess[s].peerId] # s)
          => step'.calls = <<>> /\ step'.sent = <<>> /\ ~step'.raised]_vars

\* C8: a close, sdp or ice message from a peerId with no key in this.peers
\* raises nothing and changes nothing.
C8_DispatchToAbsentPeerIsNoOp ==
    [][(/\ step'.a \in {"close", "sdp", "ice"}
        /\ peers[step'.n][step'.from] = NoPeer)
       => /\ ~step'.raised
          /\ step'.calls = <<>> /\ step'.sent = <<>>
          /\ peers' = peers /\ sess' = sess /\ tasks' = tasks /\ net' = net]_vars

\* C9: removePeer called for a peer object that was already removed, or for
\* no peer, raises nothing, closes nothing again and leaves this.peers as it
\* is.
C9_RemovePeerIdempotent ==
    [][(/\ step'.a = "removePeer"
        /\ (step'.s = NoPeer \/ sess[step'.s].closed))
       => /\ ~step'.raised
          /\ step'.calls = <<>>
          /\ peers' = peers /\ sess' = sess]_vars

\* C10: remove() of a peer object that was already removed changes neither
\* this.peers nor any connection, also when a new peer object has been added
\* for the same peerId.
C10_RemoveOfRemovedHandleIsNoOp ==
    [][(/\ step'.a = "remove"
        /\ sess[step'.s].closed)
       => /\ ~step'.raised
          /\ step'.calls = <<>>
          /\ peers' = peers /\ sess' = sess]_vars

\* C11: a peerId is a key of this.peers of a manager exactly when a peer
\* object created for it by that manager has a connection that is not
\* closed, and the object registered under a key is such an object.
C11_RegisteredIffOpen ==
    \A n \in Node, p \in Id :
        /\ peers[n][p] # NoPeer <=>
              \E s \in 1..Len(sess) :
                 sess[s].owner = n /\ sess[s].peerId = p /\ ~sess[s].closed
        /\ peers[n][p] # NoPeer =>
              /\ sess[peers[n][p]].peerId = p
              /\ ~sess[peers[n][p]].closed

\* how often call occurs in calls
Count(calls, call) == Cardinality({k \in 1..Len(calls) : calls[k] = call})

\* the peer objects registered in this.peers of manager n
Registered(n) == {s \in 1..Len(sess) : peers[n][sess[s].peerId] = s}

\* C12: signalingDisconnectHandler raises nothing, closes the connection of
\* every registered peer object (and its data channel, if it has one) once,
\* closes nothing else and leaves this.peers empty.
C12_DisconnectRemovesAll ==
    [][step'.a = "disconnect" =>
          /\ ~step'.raised
          /\ \A p \in Id : peers'[step'.n][p] = NoPeer
          /\ \A s \in Registered(step'.n) :
                ~sess[s].closed /\ sess'[s].closed /\ sess'[s].dcClosed = sess[s].hasDC
          /\ \A s \in (1..Len(sess)) \ Registered(step'.n) : sess'[s] = sess[s]
          /\ Count(step'.calls, "close") = Cardinality(Registered(step'.n))
          /\ Count(step'.calls, "dataChannel.close")
                = Cardinality({s \in Registered(step'.n) : sess[s].hasDC})
          /\ Len(step'.calls) = Count(step'.calls, "close")
                                  + Count(step'.calls, "dataChannel.close")]_vars

C12_Witness ==
    /\ step.a = "disconnect"
    /\ Count(step.calls, "close") = 2
    /\ \A p \in Id : peers["A"][p] = NoPeer
    /\ Len(sess) = 2 /\ sess[1].closed /\ sess[2].closed

\* the awaited calls of updateSessionDescription
SdpOps == {"rollback", "setRemote", "createAnswer", "setLocalAnswer"}

\* C13: handling an inbound sdp message sends something exactly in the run
\* in which setLocalDescription(answer) succeeded, which is reached only for
\* an offer that was not ignored, through a successful setRemoteDescription
\* and a successful createAnswer; what is sent is one sdp message of type
\* answer to the sender of the offer, and the handler then ends.
C13_AnswerIffOfferApplied ==
    [][/\ step'.a = "sdp" => step'.sent = <<>>
       /\ (step'.a = "sdp" /\ step'.s # NoPeer /\ sess'[step'.s].ignoreOffer)
             => tasks' = tasks
       /\ (step'.a = "complete" /\ step'.op \in SdpOps) =>
             /\ step'.sent # <<>> <=> (step'.op = "setLocalAnswer" /\ step'.ok)
             /\ step'.sent # <<>> =>
                   /\ step'.typ = "offer"
                   /\ step'.sent = <<[to |-> sess[step'.s].peerId,
                                      m |-> SdpMsg(sess[step'.s].owner, "answer")]>>
                   /\ Len(tasks') = Len(tasks) - 1
             /\ step'.calls = <<"createAnswer">> =>
                   step'.op = "setRemote" /\ step'.ok /\ step'.typ = "offer"
             /\ step'.calls = <<"setLocalAnswer">> =>
                   step'.op = "createAnswer" /\ step'.ok /\ step'.typ = "offer"]_vars

\* C14: negotiation-needed on an impolite peer object invokes createOffer and
\* sends nothing yet; when createOffer succeeds the handler invokes
\* setLocalDescription and sends nothing; when that succeeds it sends one
\* sdp message of type offer to the peer object's peerId, nothing else, and
\* ends (the connection being open throughout).
C14_OneOfferPerNegotiation ==
    [][/\ (step'.a = "negotiationneeded" /\ ~sess[step'.s].polite) =>
             /\ step'.calls = <<"createOffer">> /\ step'.sent = <<>>
             /\ Len(tasks') = Len(tasks) + 1
       /\ (step'.a = "complete" /\ step'.op \in {"createOffer", "setLocalOffer"}
           /\ ~sess[step'.s].closed) =>
             /\ (step'.op = "createOffer" /\ step'.ok) =>
                   step'.calls = <<"setLocalOffer">> /\ step'.sent = <<>>
             /\ (step'.op = "setLocalOffer" /\ step'.ok) =>
                   /\ step'.sent = <<[to |-> sess[step'.s].peerId,
                                      m |-> SdpMsg(sess[step'.s].owner, "offer")]>>
                   /\ step'.calls = <<>>
                   /\ Len(tasks') = Len(tasks) - 1
             /\ ~step'.ok => step'.sent = <<>> /\ step'.calls = <<>>]_vars

C14_Witness ==
    /\ step.a = "complete" /\ step.op = "setLocalOffer" /\ step.ok
    /\ ~sess[step.s].polite /\ ~sess[step.s].closed
    /\ sess[step.s].sig = "have-local-offer"
    /\ Len(step.sent) = 1 /\ step.sent[1].to = sess[step.s].peerId
    /\ step.sent[1].m.sdp = "offer"

C16_AddExistingPeerIsNoOp ==
    [][/\ step'.a = "open" =>
             /\ \A p \in Id :
                   peers[step'.n][p] # NoPeer => peers'[step'.n][p] = peers[step'.n][p]
             /\ \A s \in 1..Len(sess) : sess'[s] = sess[s]
             /\ tasks' = tasks /\ step'.sent = <<>> /\ ~step'.raised
             /\ Len(sess') - Len(sess)
                   = Cardinality({p \in Id : peers[step'.n][p] = NoPeer
                                             /\ peers'[step'.n][p] # NoPeer})
             /\ Count(step'.calls, "RTCPeerConnection") = Len(sess') - Len(sess)
             /\ Count(step'.calls, "createDataChannel")
                   = IF enableDataChannel THEN Len(sess') - Len(sess) ELSE 0
       /\ \A s \in 1..Len(sess) : sess'[s].polite = sess[s].polite]_vars

\* an open message that names the registered peer B with the other role
\* and creates nothing
C16_Witness ==
    /\ step.a = "open" /\ step.calls = <<>>
    /\ peers["A"]["B"] # NoPeer
    /\ sess[peers["A"]["B"]].polite # (step.typ = "polite")
    /\ sess[peers["A"]["B"]].sig = "have-local-offer"

\* the handler runs that remove a peer
Removals == {"close", "remove", "removePeer", "disconnect"}

\* C17: no handler run other than a close message, remove(), removePeer or
\* a relay disconnect takes a key out of this.peers or closes a connection
\* or data channel; an ICE connection state of failed invokes restartIce
\* and nothing else; a failed engine call leaves the role, ignoreOffer, the
\* signaling state and the descriptions of its peer object as they were, so
\* later messages meet the peer as if the call had not been made.
C17_FailuresNotTerminal ==
    [][/\ step'.a \notin Removals =>
             /\ \A n \in Node, p \in Id :
                   peers[n][p] # NoPeer => peers'[n][p] = peers[n][p]
             /\ \A s \in 1..Len(sess) :
                   sess'[s].closed = sess[s].closed /\ sess'[s].dcClosed = sess[s].dcClosed
       /\ step'.a = "iceconnectionstatechange" =>
             /\ step'.calls = (IF step'.typ = "failed" THEN <<"restartIce">> ELSE <<>>)
             /\ sess' = sess /\ tasks' = tasks /\ ~step'.raised
       /\ (step'.a = "complete" /\ ~step'.ok) =>
             /\ ~step'.raised /\ step'.calls = <<>>
             /\ sess'[step'.s] = [sess[step'.s] EXCEPT
                                    !.makingOffer = sess'[step'.s].makingOffer]]_vars

C17_Witness ==
    /\ step.a = "iceconnectionstatechange" /\ step.typ = "failed"
    /\ step.calls = <<"restartIce">>
    /\ peers["A"][sess[step.s].peerId] = step.s
    /\ sess[step.s].sig = "have-remote-offer"
    /\ tasks = <<>>

\* C18: an ice message with the null candidate invokes no engine call and
\* raises nothing, whatever this.peers holds for the sender and whatever
\* state the peer object is in; an ice message with a candidate for a peerId
\* that has a peer object invokes addIceCandidate once, and the completion
\* of that call invokes nothing more.
C18_NullCandidateSkipped ==
    [][/\ (step'.a = "ice" /\ step'.typ = "null") =>
             /\ ~step'.raised
             /\ step'.calls = <<>> /\ tasks' = tasks
       /\ (step'.a = "ice" /\ step'.typ # "null" /\ step'.s # NoPeer) =>
             /\ ~step'.raised
             /\ step'.calls = <<"addIceCandidate">>
       /\ (step'.a = "complete" /\ step'.op = "addIceCandidate") =>
             step'.calls = <<>>]_vars

\* the handler runs that belong to one peer
PeerEvents ==
    {"negotiationneeded", "sdp", "ice", "close", "complete", "iceconnectionstatechange"}

\* the suspended handlers in q of the peers other than p
TasksOfOthers(q, p) == SelectSeq(q, LAMBDA t : sess[t.s].peerId # p)

\* C19: an open message gives every peer object it creates the role it
\* carries and leaves the existing peer objects as they are; a handler run
\* for one peer (negotiationneeded, an sdp, ice or close message, an ICE
\* state change, the completion of an engine call) changes no peer object
\* of another peerId, no other key of this.peers and no suspended handler
\* of another peer, and sends only to that peer.
C19_SessionsIndependent ==
    [][/\ step'.a = "open" =>
             /\ \A t \in 1..Len(sess) : sess'[t] = sess[t]
             /\ \A t \in (Len(sess) + 1)..Len(sess') :
                   sess'[t].polite = (step'.typ = "polite")
       /\ step'.a \in PeerEvents =>
             LET p == IF step'.s # NoPeer THEN sess[step'.s].peerId ELSE step'.from
             IN  /\ Len(sess') = Len(sess)
                 /\ \A t \in 1..Len(sess) :
                       sess[t].peerId # p => sess'[t] = sess[t]
                 /\ \A n \in Node, q \in Id \ {p} : peers'[n][q] = peers[n][q]
                 /\ TasksOfOthers(tasks', p) = TasksOfOthers(tasks, p)
                 /\ \A i \in 1..Len(step'.sent) : step'.sent[i].to = p]_vars

C19_Witness ==
    /\ step.a = "complete" /\ step.sent # <<>>
    /\ sess[step.s].peerId = "B" /\ peers["A"]["B"] = step.s
    /\ peers["A"]["C"] # NoPeer
    /\ sess[peers["A"]["C"]].makingOffer
    /\ sess[peers["A"]["C"]].sig = "have-local-offer"

\* C20: between an impolite A and a polite B every description on the relay
\* for B is an offer from A and every description on the relay for A is an
\* answer from B; A never handles an offer, and ignoreOffer is false in both
\* peer objects in every reachable state.
C20_OffersOneWay ==
    /\ \A i \in 1..Len(net["B"]) :
          /\ net["B"][i].action = "sdp" /\ net["B"][i].from = "A"
          /\ net["B"][i].sdp = "offer"
    /\ \A i \in 1..Len(net["A"]) :
          /\ net["A"][i].action = "sdp" /\ net["A"][i].from = "B"
          /\ net["A"][i].sdp = "answer"
    /\ (step.a = "sdp" /\ step.n = "A") => step.typ = "answer"
    /\ (step.a = "sdp" /\ step.n = "B") => step.typ = "offer"
    /\ ~sess[SessA].ignoreOffer
    /\ ~sess[SessB].ignoreOffer

\* an answer of B and a second offer of A are on the relay at once
C20_Witness ==
    /\ net["A"] # <<>> /\ net["B"] # <<>>
    /\ sess[SessB].currentLocal = "answer"
====
